---- MODULE Spec2Model ----
(***************************************************************************)
(* A model of src/base/layer.rs of stack-db: one Layer over its stream.    *)
(* A Range<u64> a..b is the pair <<a, b>>, a Section is the pair           *)
(* <<range, data>>, Option::None is None and Some(x) is x.                 *)
(***************************************************************************)
EXTENDS Integers, Sequences, FiniteSets, TLC

\* ------------------------------------------------------------------ bounds
\* write addresses are drawn from 0..MaxAddr
MaxAddr == 2
\* payloads have 0..MaxLen bytes
MaxLen == 2
\* at most MaxWrites successful writes per layer in Spec, the whole life of a
\* layer, and MaxHeapWrites in SpecHeap, a heap layer under writes and queries
MaxWrites == 2
MaxHeapWrites == 3
\* at most MaxFails failed flushes per layer
MaxFails == 1
\* the address at which a write touches the section 0..TouchAt in SpecTouch
TouchAt == 5

\* --------------------------------------------------------------- constants
\* pub const REWIND_IDX: u64 = 8 + 8 + 8
REWIND_IDX == 24
\* u64::BITS / 8
U64_BYTES == 8
\* TLC's integers are 32 bits wide: a decoded u64 of 2^24 or more is
\* represented by U64_HUGE, which is larger than every other number of the
\* model (addresses, lengths, stream offsets)
U64_HUGE == 256 * 256 * 256

None == <<>>

Min(a, b) == IF a < b THEN a ELSE b
Max(a, b) == IF a > b THEN a ELSE b

\* ------------------------------------------------------------------ inputs
\* The code never looks into a payload, so the k-th write of a layer carries
\* bytes found in no other write and at no other offset: byte i is 16 * k + i.
Payload(k, n) == [i \in 1..n |-> 16 * k + i]
Addrs == 0..MaxAddr
\* query ranges a..b, a <= b, reach one past the largest end a write can have
QMax == MaxAddr + MaxLen + 1
Ranges == {r \in (0..QMax) \X (0..QMax) : r[1] <= r[2]}

\* SpecTouch writes 0 or TouchAt bytes at address 0 or TouchAt, and asks for
\* ranges that end at, next to and away from those boundaries
TouchAddrs == {0, TouchAt}
TouchLens == {0, TouchAt}
TouchPoints == {0, TouchAt - 1, TouchAt, TouchAt + 1, 2 * TouchAt}
TouchRanges == {r \in TouchPoints \X TouchPoints : r[1] <= r[2]}

\* the addresses of a half-open range
Cover(r) == {x \in 0..QMax : r[1] <= x /\ x < r[2]}

\* --------------------------------------------------------------- encoding
\* u64::to_be_bytes: the 8 bytes of n, most significant first
RECURSIVE be_bytes(_, _)
be_bytes(n, k) == IF k = 0 THEN <<>> ELSE Append(be_bytes(n \div 256, k - 1), n % 256)

to_be_bytes(n) == be_bytes(n, U64_BYTES)

\* u64::from_be_bytes of 8 bytes
RECURSIVE be_value(_)
be_value(b) ==
    IF b = <<>> THEN 0
    ELSE LET hi == be_value(SubSeq(b, 1, Len(b) - 1))
         IN IF hi >= U64_HUGE \div 256 THEN U64_HUGE ELSE hi * 256 + b[Len(b)]

from_be_bytes(b) == be_value(b)

\* get_u64(buffer, range): range is 0-based and half-open
get_u64(buffer, lo, hi) == from_be_bytes(SubSeq(buffer, lo + 1, hi))

\* ------------------------------------------------------------------- state
VARIABLES
    bounds,        \* Layer::bounds: None or <<start, end>>
    mapper,        \* the Mapper variant: "Heap" or "Disk"
    sections,      \* Mapper::Heap's collection, in stored order (<<>> on disk)
    write_cursor,  \* Mapper::Heap's write cursor <<address, index>>
    size,          \* Layer::size
    read_cursor,   \* Layer::read_cursor
    stream,        \* the bytes of the persistent resource
    pos,           \* the position of the persistent resource
    ret,           \* the last call and how it returned: [op, status]
    origin,        \* how this layer was made: "new" or "load"
    log,           \* history: this layer's successful writes <<idx, data>>, in call order
    free,          \* history: every write so far was inside a range that
                   \* check_non_collisions(R, check_collisions(R)) returned
    flushed,       \* history: None, or the heap layer as the last successful flush
                   \* to this stream saw it
    failed,        \* history: the number of flushes of this layer that failed
    loaded_at      \* history: the stream position load read its header from (-1: none)

layer == <<bounds, mapper, sections, write_cursor, size, read_cursor>>
hist == <<origin, log, free, flushed, failed, loaded_at>>
vars == <<bounds, mapper, sections, write_cursor, size, read_cursor, stream, pos,
          ret, origin, log, free, flushed, failed, loaded_at>>

Start(sec) == sec[1][1]
End(sec) == sec[1][2]
Data(sec) == sec[2]

\* ---------------------------------------------------------------- iteration
\* One item of the mapper's iterator: Ok(section) or Err, with the stream
\* position after it was produced.
OkItem(sec, p) == [ok |-> TRUE, sec |-> sec, pos |-> p]
ErrItem(p) == [ok |-> FALSE, sec |-> None, pos |-> p]

\* a failed read_exact at p has consumed what was left of the stream
ShortRead(bytes, p) == ErrItem(Max(p, Len(bytes)))

\* Mapper::Disk iteration: from offset p, read a record start(8) end(8)
\* payload(end - start) until the payload bytes read equal the declared size
RECURSIVE DiskIter(_, _, _, _)
DiskIter(bytes, declared, p, total) ==
    IF total = declared THEN <<>>
    ELSE IF p + 2 * U64_BYTES > Len(bytes) THEN <<ShortRead(bytes, p)>>
    ELSE LET s == get_u64(bytes, p, p + U64_BYTES)
             e == get_u64(bytes, p + U64_BYTES, p + 2 * U64_BYTES)
             q == p + 2 * U64_BYTES
         IN IF e < s \/ q + (e - s) > Len(bytes) THEN <<ShortRead(bytes, q)>>
            ELSE <<OkItem(<<<<s, e>>, SubSeq(bytes, q + 1, q + (e - s))>>, q + (e - s))>>
                 \o DiskIter(bytes, declared, q + (e - s), total + (e - s))

\* Mapper::iter(stream, size, REWIND_IDX)
MapperIter ==
    IF mapper = "Heap"
    THEN [i \in 1..Len(sections) |-> OkItem(sections[i], pos)]
    ELSE DiskIter(stream, size, REWIND_IDX, 0)

\* the position the stream is left at by an iteration that produced items 1..n
PosAfter(it, n) ==
    IF mapper = "Heap" THEN pos
    ELSE IF n = 0 THEN REWIND_IDX ELSE it[n].pos

\* .scan(&mut err, until_err): the items before the first Err
OkPrefix(it) == IF it # <<>> /\ ~it[Len(it)].ok THEN SubSeq(it, 1, Len(it) - 1) ELSE it
HasErr(it) == it # <<>> /\ ~it[Len(it)].ok

\* ---------------------------------------------------------- check_collisions
\* a filter that takes the ranges for closed intervals
Overlaps_closed(range, r) == range[1] <= r[2] /\ r[1] <= range[2]

\* .filter(|r| range.start < r.end && r.start < range.end)
Overlaps(range, r) == range[1] < r[2] /\ r[1] < range[2]
Clip(range, r) == <<Max(range[1], r[1]), Min(range[2], r[2])>>

RECURSIVE FilterMap(_, _)
FilterMap(range, items) ==
    IF items = <<>> THEN <<>>
    ELSE LET r == items[1].sec[1]
         IN (IF Overlaps(range, r) THEN <<Clip(range, r)>> ELSE <<>>)
            \o FilterMap(range, Tail(items))

OutOfLayer(range) ==
    \/ bounds = None
    \/ bounds[2] < range[1]
    \/ range[2] < bounds[1]

\* the result of check_collisions(range) and where it leaves the stream; it is
\* what self.mapper.iter(..) yields, which is not looked at on the early return
CheckCollisionsOn(it, range) ==
    IF OutOfLayer(range) THEN [status |-> "Ok", out |-> <<>>, pos |-> pos]
    ELSE IF HasErr(it)
    THEN [status |-> "DBCorrupt", out |-> None, pos |-> PosAfter(it, Len(it))]
    ELSE [status |-> "Ok", out |-> FilterMap(range, it), pos |-> PosAfter(it, Len(it))]

check_collisions(range) == CheckCollisionsOn(MapperIter, range)

\* ------------------------------------------------------ check_non_collisions
\* the loop of check_non_collisions from index i on, with last_end
RECURSIVE Sweep(_, _, _)
Sweep(collisions, i, last_end) ==
    IF i > Len(collisions) THEN [output |-> <<>>, last_end |-> last_end]
    ELSE LET r == collisions[i]
             rest == Sweep(collisions, i + 1, r[2])
         IN [output |-> (IF r[1] > last_end THEN <<<<last_end, r[1]>>>> ELSE <<>>)
                        \o rest.output,
             last_end |-> rest.last_end]

check_non_collisions(range, collisions) ==
    LET w == Sweep(collisions, 1, range[1])
    IN w.output \o (IF w.last_end # range[2] THEN <<<<w.last_end, range[2]>>>> ELSE <<>>)

\* ------------------------------------------------------------ read_unchecked
Contains(r, addr) == r[1] <= addr[1] /\ addr[2] <= r[2]

\* the index of the first item that contains addr, or 0
FindIdx(items, addr) ==
    IF \E i \in 1..Len(items) : Contains(items[i].sec[1], addr)
    THEN CHOOSE i \in 1..Len(items) :
            /\ Contains(items[i].sec[1], addr)
            /\ \A j \in 1..(i - 1) : ~Contains(items[j].sec[1], addr)
    ELSE 0

\* the result of read_unchecked(addr) and where it leaves the stream; it is
\* what self.mapper.iter(..) yields
ReadUncheckedOn(it, addr) ==
    LET k == FindIdx(OkPrefix(it), addr)
    IN IF k > 0
       THEN [status |-> "Ok",
             out |-> <<<<addr[1] - Start(it[k].sec), addr[2] - Start(it[k].sec)>>,
                       Data(it[k].sec)>>,
             pos |-> PosAfter(it, k)]
       ELSE IF HasErr(it)
       THEN [status |-> "DBCorrupt", out |-> None, pos |-> PosAfter(it, Len(it))]
       ELSE [status |-> "OutOfBounds", out |-> None, pos |-> PosAfter(it, Len(it))]

read_unchecked(addr) == ReadUncheckedOn(MapperIter, addr)

\* ----------------------------------------------------------- write_unchecked
\* the caller's protocol: the range idx..idx+n lies inside a range that
\* check_non_collisions(R, check_collisions(R)) returns for some query R
ProvenFree(idx, n) ==
    \E R \in Ranges :
        LET c == check_collisions(R)
        IN /\ c.status = "Ok"
           /\ LET nc == check_non_collisions(R, c.out)
              IN \E i \in 1..Len(nc) : nc[i][1] <= idx /\ idx + n <= nc[i][2]

\* .iter().enumerate().find(|(_, (r, _))| r.start > idx).map(|(i, _)| i).unwrap_or(0)
ScanIdx(secs, idx) ==
    IF \E i \in 1..Len(secs) : Start(secs[i]) > idx
    THEN (CHOOSE i \in 1..Len(secs) :
            /\ Start(secs[i]) > idx
            /\ \A j \in 1..(i - 1) : ~(Start(secs[j]) > idx)) - 1
    ELSE 0

\* the 0-based index write_unchecked inserts at
map_idx(idx) ==
    IF write_cursor[1] = idx THEN write_cursor[2] ELSE ScanIdx(sections, idx)

\* Vec::insert(i, x), i 0-based
Insert(v, i, x) == SubSeq(v, 1, i) \o <<x>> \o SubSeq(v, i + 1, Len(v))

Ret(op, status) == [op |-> op, status |-> status]

\* a widening that forgets the start, as if writes only ever appended
WidenBounds_keepStart(b, range) ==
    IF b = None THEN range
    ELSE <<b[1], Max(b[2], range[2])>>

\* self.bounds = Some(match self.bounds { .. })
WidenBounds(b, range) ==
    IF b = None THEN range
    ELSE <<Min(b[1], range[1]), Max(b[2], range[2])>>

\* self.size += range.end - range.start
AddSize(sz, range) == sz + (range[2] - range[1])

\* get_writer()? has failed: the layer is read-only
WriteRejected ==
    /\ ret' = Ret("write_unchecked", "ReadOnly")
    /\ UNCHANGED <<layer, stream, pos, hist>>

\* a write that leaves the cursor's index at the place of the insertion
WriteCommit_cursorStays(idx, data) ==
    LET range == <<idx, idx + Len(data)>>
        m == map_idx(idx)
    IN IF m > Len(sections)
       THEN /\ ret' = Ret("write_unchecked", "Panic")
            /\ UNCHANGED <<layer, stream, pos, hist>>
       ELSE /\ sections' = Insert(sections, m, <<range, data>>)
            /\ write_cursor' = <<range[2], m>>
            /\ size' = AddSize(size, range)
            /\ bounds' = WidenBounds(bounds, range)
            /\ ret' = Ret("write_unchecked", "Ok")
            /\ log' = Append(log, <<idx, data>>)
            /\ free' = (free /\ ProvenFree(idx, Len(data)))
            /\ UNCHANGED <<mapper, read_cursor, stream, pos, origin, flushed,
                           failed, loaded_at>>

\* write_unchecked past get_writer
WriteCommit(idx, data) ==
    LET range == <<idx, idx + Len(data)>>
        m == map_idx(idx)
    IN IF m > Len(sections)
       THEN \* Vec::insert panics
            /\ ret' = Ret("write_unchecked", "Panic")
            /\ UNCHANGED <<layer, stream, pos, hist>>
       ELSE /\ sections' = Insert(sections, m, <<range, data>>)
            /\ write_cursor' = <<range[2], m + 1>>
            /\ size' = AddSize(size, range)
            /\ bounds' = WidenBounds(bounds, range)
            /\ ret' = Ret("write_unchecked", "Ok")
            /\ log' = Append(log, <<idx, data>>)
            /\ free' = (free /\ ProvenFree(idx, Len(data)))
            /\ UNCHANGED <<mapper, read_cursor, stream, pos, origin, flushed,
                           failed, loaded_at>>

\* a write that never asks for the writer
WriteUnchecked_ungated(idx, data) == WriteCommit(idx, data)

\* a write that adds to size before it asks for the writer
WriteUnchecked_lateGate(idx, data) ==
    IF mapper # "Heap"
    THEN /\ ret' = Ret("write_unchecked", "ReadOnly")
         /\ size' = size + Len(data)
         /\ UNCHANGED <<bounds, mapper, sections, write_cursor, read_cursor, stream,
                        pos, hist>>
    ELSE WriteCommit(idx, data)

WriteUnchecked(idx, data) ==
    IF mapper # "Heap" THEN WriteRejected ELSE WriteCommit(idx, data)

\* ---------------------------------------------------------------------- flush
RECURSIVE Records(_)
Records(secs) ==
    IF secs = <<>> THEN <<>>
    ELSE to_be_bytes(Start(secs[1])) \o to_be_bytes(End(secs[1])) \o Data(secs[1])
         \o Records(Tail(secs))

Header(sz, b) == to_be_bytes(sz) \o to_be_bytes(b[1]) \o to_be_bytes(b[2])

\* the bytes flush hands to the stream
FlushImage(sz, b, secs) == Header(sz, b) \o Records(secs)

\* Write::write_all of w at offset p (0-based) of bytes
Overwrite(bytes, p, w) ==
    [i \in 1..Max(Len(bytes), p + Len(w)) |->
        IF i > p /\ i <= p + Len(w) THEN w[i - p]
        ELSE IF i <= Len(bytes) THEN bytes[i] ELSE 0]

\* what a flush of the layer as it stands would write
Image == IF bounds = None THEN <<>> ELSE FlushImage(size, bounds, sections)

\* The outcomes of the stream for one flush: "ok"; "rewind", the seek fails;
\* or "write" with n, the stream fails after taking n bytes of the image.
\* The image is smaller than the BufWriter's 4 MiB, so the write_all calls only
\* fill the buffer and the stream sees the whole image at file.flush(): it can
\* fail after any n of its bytes (after all of them, it is the stream's own
\* flush that fails).
FailPoints == 0..Len(Image)

Outcomes ==
    {[kind |-> "ok", n |-> 0], [kind |-> "rewind", n |-> 0]}
    \cup {[kind |-> "write", n |-> k] : k \in FailPoints}

\* a flush that looks at the bounds only
FlushSkips_boundsOnly == bounds = None

\* if let (Some(b), Mapper::Heap { .. }) = (&self.bounds, &self.mapper) .. else
FlushSkips == bounds = None \/ mapper # "Heap"

\* a flush that does not rewind: w lands where the stream stands
Rewritten_inPlace(bytes, w) == Overwrite(bytes, pos, w)

\* file.rewind() and the write_all calls: w lands at the start of the stream
Rewritten(bytes, w) == Overwrite(bytes, 0, w)

Flush(io) ==
    IF FlushSkips
    THEN \* don't flush if it's an empty layer or in read-only mode
         /\ ret' = Ret("flush", "Ok")
         /\ UNCHANGED <<layer, stream, pos, hist>>
    ELSE LET img == Image
         IN IF io.kind = "ok"
            THEN /\ stream' = Rewritten(stream, img)
                 /\ pos' = Len(img)
                 /\ mapper' = "Disk"
                 /\ sections' = <<>>
                 /\ write_cursor' = <<0, 0>>
                 /\ ret' = Ret("flush", "Ok")
                 /\ flushed' = [sections |-> sections, bounds |-> bounds, size |-> size]
                 /\ UNCHANGED <<bounds, size, read_cursor, origin, log, free, failed,
                                loaded_at>>
            ELSE /\ failed < MaxFails
                 /\ IF io.kind = "rewind"
                    THEN UNCHANGED <<stream, pos>>
                    ELSE /\ stream' = Rewritten(stream, SubSeq(img, 1, io.n))
                         /\ pos' = io.n
                 /\ ret' = Ret("flush", "IOError")
                 /\ failed' = failed + 1
                 /\ UNCHANGED <<layer, origin, log, free, flushed, loaded_at>>

\* ----------------------------------------------------------------------- load
\* Layer::load(stream) on this layer's stream, as the caller left it
\* (rewound = FALSE) or after the caller's seek to the start (rewound = TRUE)
Load(rewound) ==
    LET p == IF rewound THEN 0 ELSE pos
        n == U64_BYTES * 3
    IN /\ origin = "new"
       /\ IF p + n > Len(stream)
          THEN \* read_exact fails
               /\ ret' = Ret("load", "DBCorrupt")
               /\ pos' = Max(p, Len(stream))
               /\ UNCHANGED <<layer, stream, hist>>
          ELSE LET buffer == SubSeq(stream, p + 1, p + n)
               IN /\ size' = get_u64(buffer, 0, 8)
                  /\ bounds' = <<get_u64(buffer, 8, 16), get_u64(buffer, 16, 24)>>
                  /\ mapper' = "Disk"
                  /\ read_cursor' = <<0, 0>>
                  /\ sections' = <<>>
                  /\ write_cursor' = <<0, 0>>
                  /\ pos' = p + n
                  /\ ret' = Ret("load", "Ok")
                  /\ origin' = "load"
                  /\ loaded_at' = p
                  \* the new layer has no writes and no failed flush behind it
                  /\ log' = <<>>
                  /\ free' = TRUE
                  /\ failed' = 0
                  /\ UNCHANGED <<stream, flushed>>

\* -------------------------------------------------------------------- queries
\* the calls check_collisions(range) and read_unchecked(addr); it is MapperIter
\* a check whose iteration takes the sections out of the heap collection
CheckCollisions_draining(it, range) ==
    LET c == CheckCollisionsOn(it, range)
    IN /\ ret' = Ret("check_collisions", c.status)
       /\ pos' = c.pos
       /\ sections' = <<>>
       /\ UNCHANGED <<bounds, mapper, write_cursor, size, read_cursor, stream, hist>>

CheckCollisions(it, range) ==
    LET c == CheckCollisionsOn(it, range)
    IN /\ ret' = Ret("check_collisions", c.status)
       /\ pos' = c.pos
       /\ UNCHANGED <<layer, stream, hist>>

\* check_non_collisions(&self, range, collisions) reads nothing of the layer
\* but its arguments; what it returns is the operator check_non_collisions
CheckNonCollisions ==
    /\ ret' = Ret("check_non_collisions", "Ok")
    /\ UNCHANGED <<layer, stream, pos, hist>>

ReadUnchecked(it, addr) ==
    LET r == ReadUncheckedOn(it, addr)
    IN /\ ret' = Ret("read_unchecked", r.status)
       /\ pos' = r.pos
       /\ UNCHANGED <<layer, stream, hist>>

\* ------------------------------------------------------------- specification
\* Layer::new(stream) over an empty stream
Init ==
    /\ bounds = None
    /\ mapper = "Heap"
    /\ sections = <<>>
    /\ write_cursor = <<0, 0>>
    /\ size = 0
    /\ read_cursor = <<0, 0>>
    /\ stream = <<>>
    /\ pos = 0
    /\ ret = Ret("new", "Ok")
    /\ origin = "new"
    /\ log = <<>>
    /\ free = TRUE
    /\ flushed = None
    /\ failed = 0
    /\ loaded_at = -1

\* the k-th write of a layer, which has room for max successful writes
Write(max) ==
    \E idx \in Addrs, n \in 0..MaxLen :
        /\ mapper = "Heap" => Len(log) < max
        /\ WriteUnchecked(idx, Payload(Len(log) + 1, n))

Next ==
    \/ Write(MaxWrites)
    \/ \E io \in Outcomes : Flush(io)
    \/ \E rewound \in BOOLEAN : Load(rewound)
    \/ LET it == MapperIter IN \E range \in Ranges : CheckCollisions(it, range)
    \/ CheckNonCollisions
    \/ LET it == MapperIter IN \E addr \in Ranges : ReadUnchecked(it, addr)

Spec == Init /\ [][Next]_vars

\* a heap layer under writes and queries only
NextHeap ==
    \/ Write(MaxHeapWrites)
    \/ LET it == MapperIter IN \E range \in Ranges : CheckCollisions(it, range)
    \/ CheckNonCollisions
    \/ LET it == MapperIter IN \E addr \in Ranges : ReadUnchecked(it, addr)

SpecHeap == Init /\ [][NextHeap]_vars

\* a heap layer under writes that start or end at address TouchAt, and queries
WriteTouch ==
    \E idx \in TouchAddrs, n \in TouchLens :
        /\ Len(log) < MaxHeapWrites
        /\ WriteUnchecked(idx, Payload(Len(log) + 1, n))

NextTouch ==
    \/ WriteTouch
    \/ LET it == MapperIter IN \E range \in TouchRanges : CheckCollisions(it, range)
    \/ CheckNonCollisions
    \/ LET it == MapperIter IN \E addr \in TouchRanges : ReadUnchecked(it, addr)

SpecTouch == Init /\ [][NextTouch]_vars

\* ===================================================================== claims
Sorted(secs) ==
    \A i, j \in 1..Len(secs) : i < j => Start(secs[i]) <= Start(secs[j])

Disjoint(r1, r2) == Cover(r1) \cap Cover(r2) = {}

NonOverlapping(rs) ==
    \A i, j \in 1..Len(rs) : i < j => Disjoint(rs[i], rs[j])

SectionRanges == [i \in 1..Len(sections) |-> sections[i][1]]

CoverAll(rs) == UNION {Cover(rs[i]) : i \in 1..Len(rs)}

\* &data[rel]: the bytes of data in the 0-based half-open range rel
Slice(data, rel) == SubSeq(data, rel[1] + 1, rel[2])

\* a heap layer all of whose writes followed the caller's protocol
BuiltFree == mapper = "Heap" /\ origin = "new" /\ free

\* C1: after writes that each lay inside a range returned by
\* check_non_collisions(R, check_collisions(R)), the heap sections are sorted
\* ascending by start and pairwise non-overlapping.
C1_SortedNonOverlapping ==
    BuiltFree => Sorted(sections) /\ NonOverlapping(SectionRanges)

\* C2: after at least one successful write on a fresh layer, bounds is
\* Some(min of the written starts .. max of the written ends) and size is the
\* sum of the written payload lengths, whatever the order and the positions.
SetMin(S) == CHOOSE x \in S : \A y \in S : x <= y
SetMax(S) == CHOOSE x \in S : \A y \in S : x >= y

RECURSIVE SumLen(_)
SumLen(l) == IF l = <<>> THEN 0 ELSE Len(l[1][2]) + SumLen(Tail(l))

WrittenStarts == {log[i][1] : i \in 1..Len(log)}
WrittenEnds == {log[i][1] + Len(log[i][2]) : i \in 1..Len(log)}

C2_BoundsAndSize ==
    (origin = "new" /\ log # <<>>) =>
        /\ bounds = <<SetMin(WrittenStarts), SetMax(WrittenEnds)>>
        /\ size = SumLen(log)

\* three writes, not in address order, that leave a gap or overlap
C2_Witness ==
    /\ Len(log) = MaxHeapWrites
    /\ log[2][1] < log[1][1]
    /\ size # bounds[2] - bounds[1]
    /\ C2_BoundsAndSize

\* C3: on a layer built by collision-free writes, for every query R the
\* ranges of check_collisions(R) and of check_non_collisions(R, those) are
\* pairwise disjoint and their union is exactly R.
Complementary(R) ==
    LET c == check_collisions(R).out
        all == c \o check_non_collisions(R, c)
    IN NonOverlapping(all) /\ CoverAll(all) = Cover(R)

C3_Complement == BuiltFree => \A R \in Ranges : Complementary(R)

\* C4: flush of a non-empty heap layer, then load of the bytes it wrote,
\* gives a disk layer with the bounds and size the heap layer had, and
\* read_unchecked of every range that was readable before the flush returns
\* the same bytes.
HeapItems(secs) == [i \in 1..Len(secs) |-> OkItem(secs[i], 0)]

SameRead(addr) ==
    LET before == ReadUncheckedOn(HeapItems(flushed.sections), addr)
        after == read_unchecked(addr)
    IN before.status = "Ok" =>
        /\ after.status = "Ok"
        /\ Slice(after.out[2], after.out[1]) = Slice(before.out[2], before.out[1])

\* the layer was loaded from the start of the bytes a flush wrote
Reloaded == origin = "load" /\ loaded_at = 0 /\ flushed # None

C4_RoundTrip ==
    Reloaded =>
        /\ bounds = flushed.bounds
        /\ size = flushed.size
        /\ \A addr \in Ranges : SameRead(addr)

\* C6: write_unchecked on a disk-backed layer returns the read-only failure
\* and leaves bounds, size, the mapper variant and the persisted bytes as
\* they were.
C6_ReadOnlyWrite ==
    [][(mapper = "Disk" /\ ret'.op = "write_unchecked") =>
        /\ ret'.status = "ReadOnly"
        /\ bounds' = bounds
        /\ size' = size
        /\ mapper' = mapper
        /\ stream' = stream]_vars

\* a write was refused by a loaded layer
C6_Witness ==
    /\ mapper = "Disk"
    /\ origin = "load"
    /\ ret = Ret("write_unchecked", "ReadOnly")

\* C7: once the mapper of a layer is in disk mode it stays in disk mode, and
\* bounds and size never change again, whatever is called on the layer.
C7_OneWay ==
    [][(mapper = "Disk" /\ origin' = origin) =>
        /\ mapper' = "Disk"
        /\ bounds' = bounds
        /\ size' = size]_vars

\* a flushed layer was read and then flushed again
C7_Witness ==
    /\ mapper = "Disk"
    /\ origin = "new"
    /\ ret = Ret("flush", "Ok")
    /\ pos # Len(stream)

\* C8: flush on a layer with no bounds, or with a disk mapper, returns
\* success and changes nothing of the layer nor of the stream's bytes and
\* position; an empty fresh layer still takes a write after it.
C8_FlushNoop ==
    [][/\ (ret'.op = "flush" /\ (bounds = None \/ mapper = "Disk")) =>
            /\ ret'.status = "Ok"
            /\ UNCHANGED <<layer, stream, pos>>
       /\ (ret.op = "flush" /\ bounds = None /\ ret'.op = "write_unchecked") =>
            /\ ret'.status = "Ok"
            /\ mapper' = "Heap"
            /\ bounds' # None]_vars

\* flush has returned on an empty fresh layer
C8_Witness ==
    /\ ret = Ret("flush", "Ok")
    /\ bounds = None
    /\ mapper = "Heap"
    /\ sections = <<>>

\* C9: a flush that fails leaves the layer heap-backed with its sections,
\* bounds and size; a later flush that succeeds leaves the stream holding the
\* header and records a flush that never failed would have written.
C9_FlushRetry ==
    [][/\ ret' = Ret("flush", "IOError") => (mapper' = "Heap" /\ UNCHANGED layer)
       /\ (mapper' = "Disk" /\ origin' = "new") =>
            stream' = FlushImage(flushed'.size, flushed'.bounds, flushed'.sections)]_vars

\* a flush succeeded after one that failed
C9_Witness ==
    /\ mapper = "Disk"
    /\ origin = "new"
    /\ failed > 0
    /\ Len(flushed.sections) = MaxWrites
    /\ stream = FlushImage(flushed.size, flushed.bounds, flushed.sections)


\* C5: on a layer built by collision-free writes, read_unchecked(a..b)
\* succeeds iff some stored section s..e has s <= a and b <= e; then the
\* relative range is (a-s)..(b-s) and the data sliced by it is the bytes
\* written at a..b; otherwise the result is OutOfBounds.
WrittenAt(k) ==
    {log[i][2][k - log[i][1] + 1] :
        i \in {j \in 1..Len(log) : log[j][1] <= k /\ k < log[j][1] + Len(log[j][2])}}

ReadPrecise(addr) ==
    LET r == read_unchecked(addr)
        holders == {i \in 1..Len(sections) : Contains(sections[i][1], addr)}
    IN /\ (r.status = "Ok") <=> (holders # {})
       /\ r.status # "Ok" => r.status = "OutOfBounds"
       /\ r.status = "Ok" =>
            /\ \E i \in holders :
                    r.out[1] = <<addr[1] - Start(sections[i]), addr[2] - Start(sections[i])>>
            /\ Len(Slice(r.out[2], r.out[1])) = addr[2] - addr[1]
            /\ \A k \in addr[1]..(addr[2] - 1) :
                    WrittenAt(k) = {Slice(r.out[2], r.out[1])[k - addr[1] + 1]}

C5_ReadPrecision == BuiltFree => \A addr \in Ranges : ReadPrecise(addr)

\* C10: on a layer built by collision-free writes, check_collisions(Q)
\* returns ranges inside Q, sorted ascending by start, pairwise
\* non-overlapping, whose union is the addresses of Q inside some section;
\* it returns nothing when the layer has no bounds or no section overlaps Q.
CollisionsExact(Q) ==
    LET c == check_collisions(Q).out
    IN /\ \A i \in 1..Len(c) : Q[1] <= c[i][1] /\ c[i][1] <= c[i][2] /\ c[i][2] <= Q[2]
       /\ \A i, j \in 1..Len(c) : i < j => c[i][1] <= c[j][1]
       /\ NonOverlapping(c)
       /\ CoverAll(c) = Cover(Q) \cap CoverAll(SectionRanges)
       /\ (bounds = None \/ \A i \in 1..Len(sections) : ~Overlaps(Q, sections[i][1]))
            => c = <<>>

C10_Collisions == BuiltFree => \A Q \in Ranges : CollisionsExact(Q)

\* C11: in every reachable state of a layer that was made by new, or loaded
\* from the start of the bytes a flush wrote, bounds is None iff the mapper's
\* iteration yields no section, and otherwise bounds is exactly
\* min(start)..max(end) of the sections the iteration yields.
YieldedRanges == LET it == OkPrefix(MapperIter) IN [i \in 1..Len(it) |-> it[i].sec[1]]

TightOver(rs) ==
    <<SetMin({rs[i][1] : i \in 1..Len(rs)}), SetMax({rs[i][2] : i \in 1..Len(rs)})>>

C11_BoundsIffSections ==
    (origin = "new" \/ Reloaded) =>
        LET rs == YieldedRanges
        IN /\ (bounds = None) <=> (rs = <<>>)
           /\ rs # <<>> => bounds = TightOver(rs)

\* C12: a successful write_unchecked(idx, data) on a heap layer whose write
\* cursor remembers an address other than idx inserts the new section just
\* before the first stored section whose start exceeds idx, and after every
\* stored section when no stored start exceeds idx (index 0 by fallback only
\* when the collection is empty).
SortedIdx(secs, idx) ==
    IF \E i \in 1..Len(secs) : Start(secs[i]) > idx
    THEN (CHOOSE i \in 1..Len(secs) :
            /\ Start(secs[i]) > idx
            /\ \A j \in 1..(i - 1) : ~(Start(secs[j]) > idx)) - 1
    ELSE Len(secs)

C12_ScanInsert ==
    [][(mapper = "Heap" /\ ret' = Ret("write_unchecked", "Ok") /\ Len(log') = Len(log) + 1) =>
        LET w == log'[Len(log')]
            sec == <<<<w[1], w[1] + Len(w[2])>>, w[2]>>
        IN write_cursor[1] # w[1] =>
            sections' = Insert(sections, SortedIdx(sections, w[1]), sec)]_vars

\* C13: check_collisions, check_non_collisions and read_unchecked, whether
\* they return a result or a failure, and a write_unchecked that fails, leave
\* bounds, size, the mapper variant and the stored sections (the heap
\* collection, and the bytes of the stream) as they were.
Queries == {"check_collisions", "check_non_collisions", "read_unchecked"}

C13_QueryFrame ==
    [][(ret'.op \in Queries \/ (ret'.op = "write_unchecked" /\ ret'.status # "Ok")) =>
        UNCHANGED <<bounds, size, mapper, sections, stream>>]_vars

\* a query has failed on a layer that holds sections
C13_Witness ==
    /\ ret = Ret("check_collisions", "DBCorrupt")
    /\ mapper = "Disk"
    /\ size > 0

\* C14: a query that only touches a stored section at a shared boundary
\* (query end = section start, or query start = section end) gets no collision
\* range from that section; and on a layer holding the one section 0..TouchAt,
\* check_collisions(TouchAt..TouchAt) returns nothing and the zero-length
\* write at TouchAt returns Ok and leaves size TouchAt and bounds 0..TouchAt.
TouchesOnly(Q, r) == Q[2] = r[1] \/ Q[1] = r[2]

ApartFrom(Q) == SelectSeq(MapperIter, LAMBDA item : ~TouchesOnly(Q, item.sec[1]))

NoTouchCollision(Q) ==
    LET c == check_collisions(Q)
    IN c.status = "Ok" /\ c.out = FilterMap(Q, ApartFrom(Q))

TouchWrite == <<TouchAt, <<>>>>

C14_BoundaryTouch ==
    [][/\ \A Q \in TouchRanges : NoTouchCollision(Q)
       /\ (/\ SectionRanges = <<<<0, TouchAt>>>>
           /\ ret'.op = "write_unchecked"
           /\ log' = Append(log, TouchWrite)) =>
            /\ check_collisions(<<TouchAt, TouchAt>>).out = <<>>
            /\ ret'.status = "Ok"
            /\ size' = TouchAt
            /\ bounds' = <<0, TouchAt>>]_vars

\* the zero-length write at TouchAt was made after the write of 0..TouchAt
C14_Witness ==
    /\ log = <<<<0, Payload(1, TouchAt)>>, TouchWrite>>
    /\ ret = Ret("write_unchecked", "Ok")
    /\ size = TouchAt
    /\ bounds = <<0, TouchAt>>
    /\ Len(sections) = 2

\* C15: load takes size and bounds from bytes 0..24 of the stream wherever
\* the stream stands: it returns a disk layer with those values when the
\* stream holds 24 bytes or more (so also on the stream as a successful flush
\* left it), and the corruption failure only when it holds fewer.
HeaderLen == 3 * U64_BYTES

C15_LoadFromStart ==
    [][ret'.op = "load" =>
        IF Len(stream) < HeaderLen
        THEN ret'.status = "DBCorrupt"
        ELSE /\ ret'.status = "Ok"
             /\ mapper' = "Disk"
             /\ size' = get_u64(stream, 0, 8)
             /\ bounds' = <<get_u64(stream, 8, 16), get_u64(stream, 16, 24)>>]_vars

\* C16: on a layer built by collision-free writes and then flushed, the disk
\* iteration yields the section sequence the heap held at the flush, and for
\* every query range check_collisions and read_unchecked return the status
\* and value they returned on the heap layer just before the flush.
YieldedSections == LET it == OkPrefix(MapperIter) IN [i \in 1..Len(it) |-> it[i].sec]

SameResult(a, b) == a.status = b.status /\ a.out = b.out

SameAnswers(Q) ==
    LET heap == HeapItems(flushed.sections)
    IN /\ SameResult(check_collisions(Q), CheckCollisionsOn(heap, Q))
       /\ SameResult(read_unchecked(Q), ReadUncheckedOn(heap, Q))

FlushedFree == mapper = "Disk" /\ origin = "new" /\ free

C16_BackendAgnostic ==
    FlushedFree =>
        /\ YieldedSections = flushed.sections
        /\ \A Q \in Ranges : SameAnswers(Q)

\* C17: in every heap-layer state the write cursor (addr, i) has
\* i <= Len(sections); after a write, i >= 1 and the section at 0-based index
\* i - 1 is the one written last, with end = addr; so the index write_unchecked
\* hands to insert, by the cursor or by the scan, is never beyond the length
\* and insert never panics.
LastWritten ==
    LET w == log[Len(log)] IN <<<<w[1], w[1] + Len(w[2])>>, w[2]>>

C17_CursorInRange ==
    mapper = "Heap" =>
        /\ write_cursor[2] <= Len(sections)
        /\ log # <<>> =>
            /\ write_cursor[2] >= 1
            /\ sections[write_cursor[2]] = LastWritten
            /\ End(LastWritten) = write_cursor[1]
        /\ \A idx \in Addrs : map_idx(idx) <= Len(sections)
        /\ ret.status # "Panic"

\* the last write went in at the cursor, in front of a section stored before
C17_Witness ==
    /\ mapper = "Heap"
    /\ Len(log) = MaxHeapWrites
    /\ log[Len(log)][1] = log[Len(log) - 1][1] + Len(log[Len(log) - 1][2])
    /\ write_cursor[2] > 1
    /\ write_cursor[2] < Len(sections)
    /\ C17_CursorInRange

====
